---- MODULE Spec2Model ----
(***************************************************************************)
(* A model of the JobHandler of cblach/jobhandler (src/unnamed/part_000):  *)
(* an admission counter n biased by one phantom unit, an atomic running    *)
(* flag, a stop channel and a sync.WaitGroup driven by the same deltas.    *)
(* Every atomic access of the Go code (atomic.LoadInt64, CompareAndSwap,   *)
(* atomic.AddInt64, atomic.Bool, the WaitGroup's state word) is one step   *)
(* of the goroutine performing it, so that the interleavings of TryN,      *)
(* Done, Stop and WaitAll are the interleavings of the code.               *)
(*                                                                         *)
(* Goroutines are interchangeable, so the calls in progress are a bag of   *)
(* call records (the call, its program counter and its locals), and the    *)
(* goroutines blocked in wg.Wait are counted. A panic ends the program:    *)
(* once a call has panicked (faulted), no goroutine takes another step.    *)
(* What a call returned is kept in last until the next step.               *)
(***************************************************************************)
EXTENDS Integers, FiniteSets, Sequences, Bags, TLC

\* ---------------------------------------------------------------- bounds
\* Calls of TryN, Done and Stop in progress at the same time.
NProcs == 3
\* Goroutines blocked in WaitAll at the same time.
MaxWaiters == 1
\* What the TryN calls that get past the check of running may ask for in
\* all: each call counts for its delta, and a call with delta = 0 for 1.
MaxUnits == 2
\* Done calls made with no admitted unit to complete.
MaxUnmatched == 1

Cost(d) == IF d > 0 THEN d ELSE 1

\* The deltas given to TryN: a negative one, 0, and what the units allow.
Deltas == (-1)..MaxUnits

\* ---------------------------------------------------------------- state
VARIABLES
    kind,       \* "New": built by New(ctx); "zero": var jh JobHandler
    n,          \* JobHandler.n
    running,    \* JobHandler.running
    stopChan,   \* JobHandler.stopChan: "nil", "open" or "closed"
    wgv,        \* JobHandler.wg: the counter half of the state word
    wgw,        \* JobHandler.wg: the waiter half of the state word
    sema,       \* JobHandler.wg: releases of the semaphore not yet acquired
    inflight,   \* the calls of TryN, Done and Stop in progress
    waiting,    \* the number of goroutines blocked in WaitAll
    last,       \* history: the call that ended in the last step, and how
    faulted,    \* history: some call has panicked
    stopTrue,   \* history: number of Stop calls that returned true
    owed,       \* history: units of returned admissions not yet given to a Done
    closes,     \* history: number of times stopChan was closed
    waitRet,    \* history: a WaitAll call has returned
    reserved,   \* history: the Cost of the TryN calls past the check of running
    extras,     \* history: Done calls begun with no admitted unit owed
    ctx,        \* the context given to New: "none", "live" or "cancelled"
    obs,        \* the goroutine that New spawns to observe ctx
    batch,      \* the call of TryFunc, TryFuncAsync or TryNFuncAsync
    sleep       \* the call of TrySleep and its timer

\* What the calls of TryN, Done, Stop, WaitAll and Stopped leave alone.
aux == <<ctx, obs, batch, sleep>>

vars == <<kind, n, running, stopChan, wgv, wgw, sema, inflight, waiting, last,
          faulted, stopTrue, owed, closes, waitRet, reserved,
          extras, aux>>

NegativeCount == "negative job count"
ZeroWhileRunning == "zero job count while running, should be at least 1"
WgNegative == "sync: negative WaitGroup counter"
WgMisuse == "sync: WaitGroup misuse: Add called concurrently with Wait"
WgReused == "sync: WaitGroup is reused before previous Wait has returned"
CloseNil == "close of nil channel"
CloseClosed == "close of closed channel"
Faults == {NegativeCount, ZeroWhileRunning, WgNegative, WgMisuse, WgReused,
           CloseNil, CloseClosed}

\* A call in progress: delta is TryN's argument, val its local prev or the
\* local n of Done, w the waiter count that wg.Add saw; after tells that a
\* TryN began after a Stop had returned true, unm that a Done began with no
\* admitted unit owed.
NewCall(o, label, d, x, a, u) ==
    [op |-> o, pc |-> label, delta |-> d, val |-> x, w |-> 0, after |-> a, unm |-> u]

NoCall == [op |-> "none", ret |-> "none", delta |-> 0, after |-> FALSE, unm |-> FALSE]

\* No call of TryFunc, TryFuncAsync or TryNFuncAsync has been made.
NoBatch == [pc |-> "none", api |-> "none", delta |-> 0, limit |-> 0, i |-> 0,
            fn |-> <<>>, calls |-> <<>>, tokret |-> 0, res |-> "none"]

\* No call of TrySleep has been made.
NoSleep == [pc |-> "none", fired |-> FALSE, early |-> FALSE, ret |-> "none"]

\* New(ctx): n = 1, an open stopChan, running = true, wg.Add(1).
New ==
    /\ n = 1
    /\ stopChan = "open"
    /\ running = TRUE
    /\ wgv = 1

\* var jh JobHandler: every field is its zero value.
ZeroHandler ==
    /\ n = 0
    /\ stopChan = "nil"
    /\ running = FALSE
    /\ wgv = 0

Init ==
    /\ kind \in {"New", "zero"}
    /\ IF kind = "New" THEN New ELSE ZeroHandler
    /\ wgw = 0
    /\ sema = 0
    /\ inflight = EmptyBag
    /\ waiting = 0
    /\ last = NoCall
    /\ faulted = FALSE
    /\ stopTrue = 0
    /\ owed = 0
    /\ closes = 0
    /\ waitRet = FALSE
    /\ reserved = 0
    /\ extras = 0
    /\ ctx = "none"
    /\ obs = "none"
    /\ batch = NoBatch
    /\ sleep = NoSleep

\* ------------------------------------------------------ returns and panics
Active == BagToSet(inflight)

\* A goroutine is there to begin a call of TryN, Done or Stop.
Free == BagCardinality(inflight) < NProcs

\* How a call ended: what it returned, or the message of its panic.
Ended(o, v, d, a, u) == [op |-> o, ret |-> v, delta |-> d, after |-> a, unm |-> u]

\* return v from the call c.
Return(c, v) ==
    /\ inflight' = inflight (-) SetToBag({c})
    /\ last' = Ended(c.op, v, c.delta, c.after, c.unm)
    /\ UNCHANGED faulted

\* panic(msg) in the call c.
Panic(c, msg) ==
    /\ inflight' = inflight (-) SetToBag({c})
    /\ last' = Ended(c.op, msg, c.delta, c.after, c.unm)
    /\ faulted' = TRUE

\* A call c2 begins.
Begin(c2) ==
    /\ inflight' = inflight (+) SetToBag({c2})
    /\ last' = NoCall
    /\ UNCHANGED faulted

\* The call c goes on as c2.
Goto(c, c2) ==
    /\ inflight' = (inflight (-) SetToBag({c})) (+) SetToBag({c2})
    /\ last' = NoCall
    /\ UNCHANGED faulted

\* A call begins and ends in one step, returning v.
ReturnAtOnce(o, v, d, a) ==
    /\ last' = Ended(o, v, d, a, FALSE)
    /\ UNCHANGED <<inflight, faulted>>

\* What the call c returns once its wg.Add has returned.
AfterAdd(c) == IF c.op = "Done" THEN "void" ELSE "true"

\* return from the call c, of the kind that ends with wg.Add: TryN has then
\* admitted delta units that each owe a Done, Done has completed a unit, Stop
\* has returned true.
ReturnAfterAdd(c) ==
    /\ Return(c, AfterAdd(c))
    /\ owed' = IF c.op = "TryN" THEN owed + c.delta ELSE owed
    /\ stopTrue' = IF c.op = "Stop" THEN stopTrue + 1 ELSE stopTrue

\* --------------------------------------------------------- sync.WaitGroup
\* wg.Add(d), called by c at the end of TryN, Done or Stop: the atomic add to
\* the state word and the checks on the value it returned. A counter that
\* reached 0 with waiters registered goes on to AddChk and AddRel; anything
\* else returns from Add, and so from the call c.
WgAdd(c, d) ==
    LET v == wgv + d IN
    /\ wgv' = v
    /\ UNCHANGED <<wgw, sema>>
    /\ IF v < 0
         THEN Panic(c, WgNegative) /\ UNCHANGED <<owed, stopTrue>>
       ELSE IF wgw # 0 /\ d > 0 /\ v = d
         THEN Panic(c, WgMisuse) /\ UNCHANGED <<owed, stopTrue>>
       ELSE IF v > 0 \/ wgw = 0
         THEN ReturnAfterAdd(c)
       ELSE /\ Goto(c, [c EXCEPT !.pc = "add_chk", !.w = wgw])
            /\ UNCHANGED <<owed, stopTrue>>

\* wg.Add, after the counter reached 0 with waiters: the state word is loaded
\* again and must be what the add returned.
AddChk ==
    \E c \in Active :
        /\ ~faulted
        /\ c.pc = "add_chk"
        /\ IF <<wgv, wgw>> # <<0, c.w>>
             THEN Panic(c, WgMisuse)
             ELSE Goto(c, [c EXCEPT !.pc = "add_rel"])
        /\ UNCHANGED <<aux, kind, n, running, stopChan, wgv, wgw, sema, waiting, stopTrue,
                       owed, closes, waitRet, reserved, extras>>

\* wg.Add: the state word is reset to 0 and every waiter seen is released.
AddRel ==
    \E c \in Active :
        /\ ~faulted
        /\ c.pc = "add_rel"
        /\ wgv' = 0
        /\ wgw' = 0
        /\ sema' = sema + c.w
        /\ ReturnAfterAdd(c)
        /\ UNCHANGED <<aux, kind, n, running, stopChan, waiting, closes,
                       waitRet, reserved, extras>>

\* WaitAll: wg.Wait() loads the state word; a counter of 0 returns at once,
\* any other registers the caller as a waiter (the compare-and-swap of the
\* loop) and blocks it on the semaphore.
WaitAll ==
    /\ ~faulted
    /\ IF wgv = 0
         THEN /\ ReturnAtOnce("WaitAll", "void", 0, FALSE)
              /\ waitRet' = TRUE
              /\ UNCHANGED <<wgw, waiting>>
         ELSE /\ waiting < MaxWaiters
              /\ waiting' = waiting + 1
              /\ wgw' = wgw + 1
              /\ last' = NoCall
              /\ UNCHANGED <<inflight, faulted, waitRet>>
    /\ UNCHANGED <<aux, kind, n, running, stopChan, wgv, sema, stopTrue, owed, closes,
                   reserved, extras>>

\* wg.Wait(), woken by a release: the state word must be 0 again.
WaitSem ==
    /\ ~faulted
    /\ waiting > 0
    /\ sema > 0
    /\ waiting' = waiting - 1
    /\ sema' = sema - 1
    /\ IF <<wgv, wgw>> # <<0, 0>>
         THEN /\ last' = Ended("WaitAll", WgReused, 0, FALSE, FALSE)
              /\ faulted' = TRUE
              /\ UNCHANGED waitRet
         ELSE /\ last' = Ended("WaitAll", "void", 0, FALSE, FALSE)
              /\ waitRet' = TRUE
              /\ UNCHANGED faulted
    /\ UNCHANGED <<aux, kind, n, running, stopChan, wgv, wgw, inflight, stopTrue,
                   owed, closes, reserved, extras>>

\* ------------------------------------------------------------------ TryN
\* TryN as it would be without the check of running.
TryNIgnoresRunning(d) ==
    /\ ~faulted
    /\ IF d < 0
         THEN /\ ReturnAtOnce("TryN", "false", d, stopTrue > 0)
              /\ UNCHANGED reserved
         ELSE /\ Free
              /\ reserved + Cost(d) <= MaxUnits
              /\ reserved' = reserved + Cost(d)
              /\ Begin(NewCall("TryN", "try_load", d, 0, stopTrue > 0, FALSE))
    /\ UNCHANGED <<aux, kind, n, running, stopChan, wgv, wgw, sema, waiting, stopTrue,
                   owed, closes, waitRet, extras>>

\* TryN(d): the checks of delta and of running.
TryN(d) ==
    /\ ~faulted
    /\ IF d < 0 \/ ~running
         THEN /\ ReturnAtOnce("TryN", "false", d, stopTrue > 0)
              /\ UNCHANGED reserved
         ELSE /\ Free
              /\ reserved + Cost(d) <= MaxUnits
              /\ reserved' = reserved + Cost(d)
              /\ Begin(NewCall("TryN", "try_load", d, 0, stopTrue > 0, FALSE))
    /\ UNCHANGED <<aux, kind, n, running, stopChan, wgv, wgw, sema, waiting, stopTrue,
                   owed, closes, waitRet, extras>>

\* TryN as it would be if jh.wg.Add(delta) came before the loop and was not
\* taken back on the return at prev == 0.
TryLoadKeepsAdd ==
    \E c \in Active :
        /\ ~faulted
        /\ c.pc = "try_load"
        /\ IF n < 0 THEN Panic(c, NegativeCount) /\ UNCHANGED wgv
           ELSE IF n = 0 THEN Return(c, "false") /\ wgv' = wgv + c.delta
           ELSE Goto(c, [c EXCEPT !.pc = "try_cas", !.val = n]) /\ UNCHANGED wgv
        /\ UNCHANGED <<aux, kind, n, running, stopChan, wgw, sema, waiting, stopTrue,
                       owed, closes, waitRet, reserved, extras>>

\* TryN: prev := atomic.LoadInt64(&jh.n) and the two checks of prev.
TryLoad ==
    \E c \in Active :
        /\ ~faulted
        /\ c.pc = "try_load"
        /\ IF n < 0 THEN Panic(c, NegativeCount)
           ELSE IF n = 0 THEN Return(c, "false")
           ELSE Goto(c, [c EXCEPT !.pc = "try_cas", !.val = n])
        /\ UNCHANGED <<aux, kind, n, running, stopChan, wgv, wgw, sema, waiting, stopTrue,
                       owed, closes, waitRet, reserved, extras>>

\* TryN as it would be with a plain store of prev + delta in place of the
\* compare-and-swap.
TryCasBlindStore ==
    \E c \in Active :
        /\ ~faulted
        /\ c.pc = "try_cas"
        /\ n' = c.val + c.delta
        /\ Goto(c, [c EXCEPT !.pc = "try_wg", !.val = 0])
        /\ UNCHANGED <<aux, kind, running, stopChan, wgv, wgw, sema, waiting, stopTrue,
                       owed, closes, waitRet, reserved, extras>>

\* TryN as it would be if the swap stored delta, not prev + delta.
TryCasStoresDelta ==
    \E c \in Active :
        /\ ~faulted
        /\ c.pc = "try_cas"
        /\ IF n = c.val
             THEN /\ n' = c.delta
                  /\ Goto(c, [c EXCEPT !.pc = "try_wg", !.val = 0])
             ELSE /\ Goto(c, [c EXCEPT !.pc = "try_load", !.val = 0])
                  /\ UNCHANGED n
        /\ UNCHANGED <<aux, kind, running, stopChan, wgv, wgw, sema, waiting, stopTrue,
                       owed, closes, waitRet, reserved, extras>>

\* TryN as it would be with a compare-and-swap that fails whatever n is.
TryCasAlwaysFails ==
    \E c \in Active :
        /\ ~faulted
        /\ c.pc = "try_cas"
        /\ Goto(c, [c EXCEPT !.pc = "try_load", !.val = 0])
        /\ UNCHANGED <<aux, kind, n, running, stopChan, wgv, wgw, sema, waiting, stopTrue,
                       owed, closes, waitRet, reserved, extras>>

\* TryN: atomic.CompareAndSwapInt64(&jh.n, prev, prev + delta).
TryCas ==
    \E c \in Active :
        /\ ~faulted
        /\ c.pc = "try_cas"
        /\ IF n = c.val
             THEN /\ n' = c.val + c.delta
                  /\ Goto(c, [c EXCEPT !.pc = "try_wg", !.val = 0])
             ELSE /\ Goto(c, [c EXCEPT !.pc = "try_load", !.val = 0])
                  /\ UNCHANGED n
        /\ UNCHANGED <<aux, kind, running, stopChan, wgv, wgw, sema, waiting, stopTrue,
                       owed, closes, waitRet, reserved, extras>>

\* TryN: jh.wg.Add(delta); return true.
TryWg ==
    \E c \in Active :
        /\ ~faulted
        /\ c.pc = "try_wg"
        /\ WgAdd(c, c.delta)
        /\ UNCHANGED <<aux, kind, n, running, stopChan, waiting, closes,
                       waitRet, reserved, extras>>

\* ------------------------------------------------------------------ Done
\* Done: n := atomic.AddInt64(&jh.n, -1) and the checks that need no load;
\* u tells whether the call completes no admitted unit.
DoneDec(u) ==
    /\ ~faulted
    /\ Free
    /\ n' = n - 1
    /\ IF n - 1 < 0
         THEN /\ last' = Ended("Done", NegativeCount, 0, FALSE, u)
              /\ faulted' = TRUE
              /\ UNCHANGED inflight
         ELSE Begin(NewCall("Done", IF n - 1 = 0 THEN "done_chk" ELSE "done_wg",
                            0, n - 1, FALSE, u))
    /\ UNCHANGED <<aux, kind, running, stopChan, wgv, wgw, sema, waiting, stopTrue,
                   closes, waitRet, reserved>>

\* Done, called for a unit that a TryN which returned true admitted.
Done ==
    /\ owed > 0
    /\ owed' = owed - 1
    /\ DoneDec(FALSE)
    /\ UNCHANGED extras

\* Done, called with no admitted unit left to complete (a caller's error).
DoneUnmatched ==
    /\ owed = 0
    /\ extras < MaxUnmatched
    /\ extras' = extras + 1
    /\ DoneDec(TRUE)
    /\ UNCHANGED owed

\* Done as it would be without the check of running at n == 0.
DoneChkNoPanic ==
    \E c \in Active :
        /\ ~faulted
        /\ c.pc = "done_chk"
        /\ Goto(c, [c EXCEPT !.pc = "done_wg"])
        /\ UNCHANGED <<aux, kind, n, running, stopChan, wgv, wgw, sema, waiting, stopTrue,
                       owed, closes, waitRet, reserved, extras>>

\* Done: n == 0 && jh.running.Load().
DoneChk ==
    \E c \in Active :
        /\ ~faulted
        /\ c.pc = "done_chk"
        /\ IF running THEN Panic(c, ZeroWhileRunning)
                      ELSE Goto(c, [c EXCEPT !.pc = "done_wg"])
        /\ UNCHANGED <<aux, kind, n, running, stopChan, wgv, wgw, sema, waiting, stopTrue,
                       owed, closes, waitRet, reserved, extras>>

\* Done: jh.wg.Add(-1).
DoneWg ==
    \E c \in Active :
        /\ ~faulted
        /\ c.pc = "done_wg"
        /\ WgAdd(c, -1)
        /\ UNCHANGED <<aux, kind, n, running, stopChan, waiting, closes,
                       waitRet, reserved, extras>>

\* ------------------------------------------------------------------ Stop
\* Stop as it would be if it went on whatever CompareAndSwap returned.
StopIgnoresCas ==
    /\ ~faulted
    /\ Free
    /\ running' = FALSE
    /\ Begin(NewCall("Stop", "stop_dec", 0, 0, FALSE, FALSE))
    /\ UNCHANGED <<aux, kind, n, stopChan, wgv, wgw, sema, waiting, stopTrue, owed,
                   closes, waitRet, reserved, extras>>

\* Stop as it would be if it only loaded running and left it true.
StopLeavesRunning ==
    /\ ~faulted
    /\ running
    /\ Free
    /\ Begin(NewCall("Stop", "stop_dec", 0, 0, FALSE, FALSE))
    /\ UNCHANGED <<aux, kind, n, running, stopChan, wgv, wgw, sema, waiting, stopTrue,
                   owed, closes, waitRet, reserved, extras>>

\* Stop: jh.running.CompareAndSwap(true, false).
Stop ==
    /\ ~faulted
    /\ IF running
         THEN /\ Free
              /\ running' = FALSE
              /\ Begin(NewCall("Stop", "stop_dec", 0, 0, FALSE, FALSE))
         ELSE /\ ReturnAtOnce("Stop", "false", 0, FALSE)
              /\ UNCHANGED running
    /\ UNCHANGED <<aux, kind, n, stopChan, wgv, wgw, sema, waiting, stopTrue, owed,
                   closes, waitRet, reserved, extras>>

\* Stop: atomic.AddInt64(&jh.n, -1) < 0.
StopDec ==
    \E c \in Active :
        /\ ~faulted
        /\ c.pc = "stop_dec"
        /\ n' = n - 1
        /\ IF n - 1 < 0 THEN Panic(c, NegativeCount)
                        ELSE Goto(c, [c EXCEPT !.pc = "stop_close"])
        /\ UNCHANGED <<aux, kind, running, stopChan, wgv, wgw, sema, waiting, stopTrue,
                       owed, closes, waitRet, reserved, extras>>

\* Stop as it would be without close(jh.stopChan).
StopCloseSkipped ==
    \E c \in Active :
        /\ ~faulted
        /\ c.pc = "stop_close"
        /\ Goto(c, [c EXCEPT !.pc = "stop_wg"])
        /\ UNCHANGED <<aux, kind, n, running, stopChan, wgv, wgw, sema, waiting, stopTrue,
                       owed, closes, waitRet, reserved, extras>>

\* Stop: close(jh.stopChan).
StopClose ==
    \E c \in Active :
        /\ ~faulted
        /\ c.pc = "stop_close"
        /\ IF stopChan = "open"
             THEN /\ stopChan' = "closed"
                  /\ closes' = closes + 1
                  /\ Goto(c, [c EXCEPT !.pc = "stop_wg"])
             ELSE /\ Panic(c, IF stopChan = "nil" THEN CloseNil ELSE CloseClosed)
                  /\ UNCHANGED <<stopChan, closes>>
        /\ UNCHANGED <<aux, kind, n, running, wgv, wgw, sema, waiting, stopTrue, owed,
                       waitRet, reserved, extras>>

\* Stop: jh.wg.Add(-1); return true.
StopWg ==
    \E c \in Active :
        /\ ~faulted
        /\ c.pc = "stop_wg"
        /\ WgAdd(c, -1)
        /\ UNCHANGED <<aux, kind, n, running, stopChan, waiting, closes,
                       waitRet, reserved, extras>>

\* Stopped: !jh.running.Load().
Stopped ==
    /\ ~faulted
    /\ ReturnAtOnce("Stopped", IF running THEN "false" ELSE "true", 0, FALSE)
    /\ UNCHANGED <<aux, kind, n, running, stopChan, wgv, wgw, sema, waiting, stopTrue,
                   owed, closes, waitRet, reserved, extras>>

\* ---------------------------------------------------------- specifications
\* A step of a call that has begun.
Step ==
    \/ TryLoad \/ TryCas \/ TryWg
    \/ DoneChk \/ DoneWg
    \/ StopDec \/ StopClose \/ StopWg
    \/ AddChk \/ AddRel
    \/ WaitSem

\* A call begins.
Call ==
    \/ \E d \in Deltas : TryN(d)
    \/ Done
    \/ Stop
    \/ WaitAll
    \/ Stopped

\* Correct usage: Done is called once for each unit of an admission that
\* returned true, and never otherwise.
Next == Call \/ Step

Spec == Init /\ [][Next]_vars

\* Any usage: Done may also be called with no unit to complete.
NextMisuse == Call \/ DoneUnmatched \/ Step

SpecMisuse == Init /\ [][NextMisuse]_vars

\* The scheduler runs every goroutine that can run: a call in progress takes
\* its next step, and a woken waiter wakes. The callers keep their side: each
\* admitted unit gets its Done and Stop gets called (strongly fair, as a call
\* can begin only while one of the NProcs slots is free).
Fairness ==
    /\ WF_vars(TryLoad) /\ WF_vars(TryCas) /\ WF_vars(TryWg)
    /\ WF_vars(DoneChk) /\ WF_vars(DoneWg)
    /\ WF_vars(StopDec) /\ WF_vars(StopClose) /\ WF_vars(StopWg)
    /\ WF_vars(AddChk) /\ WF_vars(AddRel)
    /\ WF_vars(WaitSem)
    /\ SF_vars(Done)
    /\ SF_vars(Stop /\ running)

FairSpec == Spec /\ Fairness

\* The scheduler alone: a call in progress takes its next step and a woken
\* waiter wakes, while nobody has to call Stop or Done.
FairnessSteps ==
    /\ WF_vars(TryLoad) /\ WF_vars(TryCas) /\ WF_vars(TryWg)
    /\ WF_vars(DoneChk) /\ WF_vars(DoneWg)
    /\ WF_vars(StopDec) /\ WF_vars(StopClose) /\ WF_vars(StopWg)
    /\ WF_vars(AddChk) /\ WF_vars(AddRel)
    /\ WF_vars(WaitSem)

FairSpecSteps == Spec /\ FairnessSteps

\* ------------------------------------------------- the observer of ctx
\* The fields of the handler and the history of its calls, without the calls
\* in progress.
handler == <<kind, n, running, stopChan, wgv, wgw, sema, waiting, stopTrue, owed,
             closes, waitRet, reserved, extras>>

\* New(ctx) with a ctx that can be cancelled (ctx != nil && ctx.Done() != nil):
\* the handler of New, and the goroutine of lines 30-36 blocked in its select.
InitCtx ==
    /\ kind = "New"
    /\ New
    /\ ctx = "live"
    /\ obs = "select"
    /\ wgw = 0 /\ sema = 0 /\ inflight = EmptyBag /\ waiting = 0
    /\ last = NoCall /\ faulted = FALSE
    /\ stopTrue = 0 /\ owed = 0 /\ closes = 0 /\ waitRet = FALSE
    /\ reserved = 0 /\ extras = 0
    /\ batch = NoBatch
    /\ sleep = NoSleep

\* The owner of ctx cancels it: ctx.Done() is closed.
Cancel ==
    /\ ~faulted
    /\ ctx = "live"
    /\ ctx' = "cancelled"
    /\ last' = NoCall
    /\ UNCHANGED <<handler, inflight, faulted, obs, batch, sleep>>

\* The observer, case <-ctx.Done(): it calls jh.Stop(), whose first step is
\* jh.running.CompareAndSwap(true, false); a Stop that returns false ends
\* the goroutine.
ObsCtx ==
    /\ ~faulted
    /\ obs = "select"
    /\ ctx = "cancelled"
    /\ IF running
         THEN /\ running' = FALSE
              /\ Begin(NewCall("Stop", "stop_dec", 0, 0, FALSE, FALSE))
              /\ obs' = "stop"
         ELSE /\ ReturnAtOnce("Stop", "false", 0, FALSE)
              /\ obs' = "exited"
              /\ UNCHANGED running
    /\ UNCHANGED <<kind, n, stopChan, wgv, wgw, sema, waiting, stopTrue, owed,
                   closes, waitRet, reserved, extras, ctx, batch, sleep>>

\* The observer as it would be if it went back to its select on the stop
\* signal.
ObsStopLoops ==
    /\ ~faulted
    /\ obs = "select"
    /\ stopChan = "closed"
    /\ obs' = "select"
    /\ last' = NoCall
    /\ UNCHANGED <<handler, inflight, faulted, ctx, batch, sleep>>

\* The observer, case <-jh.stopChan: the goroutine ends.
ObsStop ==
    /\ ~faulted
    /\ obs = "select"
    /\ stopChan = "closed"
    /\ obs' = "exited"
    /\ last' = NoCall
    /\ UNCHANGED <<handler, inflight, faulted, ctx, batch, sleep>>

\* The observer, after its jh.Stop() has returned true: the goroutine ends.
\* (Its Stop is the one in progress: it won the swap of running.)
ObsExit ==
    /\ ~faulted
    /\ obs = "stop"
    /\ \A c \in Active : c.op # "Stop"
    /\ obs' = "exited"
    /\ last' = NoCall
    /\ UNCHANGED <<handler, inflight, faulted, ctx, batch, sleep>>

NextCtx == Call \/ Step \/ Cancel \/ ObsCtx \/ ObsStop \/ ObsExit

SpecCtx == InitCtx /\ [][NextCtx]_vars

\* The scheduler runs every goroutine that can run, the observer among them,
\* and each admitted unit gets its Done; nobody has to call Stop or cancel.
FairnessCtx ==
    /\ WF_vars(TryLoad) /\ WF_vars(TryCas) /\ WF_vars(TryWg)
    /\ WF_vars(DoneChk) /\ WF_vars(DoneWg)
    /\ WF_vars(StopDec) /\ WF_vars(StopClose) /\ WF_vars(StopWg)
    /\ WF_vars(AddChk) /\ WF_vars(AddRel)
    /\ WF_vars(WaitSem)
    /\ SF_vars(Done)
    /\ WF_vars(ObsCtx) /\ WF_vars(ObsStop) /\ WF_vars(ObsExit)

FairSpecCtx == SpecCtx /\ FairnessCtx

\* --------------------------------- TryFunc, TryFuncAsync, TryNFuncAsync
\* One call of the three is followed: batch holds its arguments, where it is
\* (pc), the index i of the spawning loop, the state of the invocation of fn
\* for each index (fn[j] is the one of index j - 1: "idle", "running" or
\* "returned") and how many times fn was invoked with it (calls), the tokens
\* put back in limitCh (tokret), and what the call returned or sent (res).
Apis == {"TryFunc", "TryFuncAsync", "TryNFuncAsync"}

\* The limits given to TryNFuncAsync.
Limits == (-1)..MaxUnits

\* TryNFuncAsync: if limit <= 0 {limit = delta}.
Lim(b) == IF b.limit <= 0 THEN b.delta ELSE b.limit

\* TryNFuncAsync: limit < delta, the case in which limitCh is made and used.
Pool(b) == b.api = "TryNFuncAsync" /\ Lim(b) < b.delta

\* The tokens in limitCh: limit at first, one taken by each turn of the
\* loop, one put back by each goroutine at its end.
Tokens(b) == Lim(b) - b.i + b.tokret

\* The invocations of fn in progress, and those that have returned.
Running(b) == Cardinality({j \in DOMAIN b.fn : b.fn[j] = "running"})
Returned(b) == Cardinality({j \in DOMAIN b.fn : b.fn[j] = "returned"})

\* The Done calls in progress.
DonesInFlight ==
    BagCardinality([c \in {x \in Active : x.op = "Done"} |-> inflight[c]])

\* The Done calls begun by the goroutines of the call, and those returned:
\* the admitted units are its delta, and owed those with no Done begun.
DoneBegun == batch.delta - owed
DoneReturned == DoneBegun - DonesInFlight

\* The call begins (TryNFuncAsync and TryFuncAsync: ch := make(chan bool, 1)).
\* TryFunc and TryFuncAsync admit through Try(), that is TryN(1).
FuncCall(api, d, l) ==
    /\ ~faulted
    /\ batch.pc = "none"
    /\ api # "TryNFuncAsync" => (d = 1 /\ l = 0)
    /\ batch' = [NoBatch EXCEPT !.pc = "call", !.api = api, !.delta = d, !.limit = l]
    /\ last' = NoCall
    /\ UNCHANGED <<handler, inflight, faulted, ctx, obs, sleep>>

\* The call makes its jh.TryN(delta) (jh.Try()).
FuncTry ==
    /\ batch.pc = "call"
    /\ last.op # "TryN"
    /\ \A c \in Active : c.op # "TryN"
    /\ TryN(batch.delta)

\* The TryN of the call has just returned, and the call has yet to read what.
Pending == ~faulted /\ batch.pc = "call" /\ last.op = "TryN"

\* The call as it would be if it went on to fn after ch <- false.
FuncGotIgnoresRefusal ==
    /\ Pending
    /\ batch' = [batch EXCEPT
             !.pc = "admitted",
             !.fn = [j \in 1..batch.delta |-> "idle"],
             !.calls = [j \in 1..batch.delta |-> 0],
             !.res = IF last.ret # "true" THEN "false" ELSE "none"]
    /\ last' = NoCall
    /\ UNCHANGED <<handler, inflight, faulted, ctx, obs, sleep>>

\* The call reads what its TryN returned. On false: return false (TryFunc),
\* ch <- false (the other two). On true, TryNFuncAsync settles limit, fills
\* limitCh and starts the goroutine of the loop, which runs from then on
\* beside the caller, whose ch <- true is a later step (FuncSend); TryFunc
\* and TryFuncAsync go on to fn().
FuncGot ==
    /\ Pending
    /\ IF last.ret = "true"
         THEN batch' = [batch EXCEPT
                  !.pc = "admitted",
                  !.fn = [j \in 1..batch.delta |-> "idle"],
                  !.calls = [j \in 1..batch.delta |-> 0]]
         ELSE batch' = [batch EXCEPT !.pc = "refused", !.res = "false"]
    /\ last' = NoCall
    /\ UNCHANGED <<handler, inflight, faulted, ctx, obs, sleep>>

\* TryNFuncAsync: ch <- true, by the caller once it has started the
\* goroutine of the loop, whatever that goroutine and those of fn have done.
FuncSend ==
    /\ ~faulted
    /\ batch.pc = "admitted"
    /\ batch.api = "TryNFuncAsync"
    /\ batch.res = "none"
    /\ batch' = [batch EXCEPT !.res = "true"]
    /\ last' = NoCall
    /\ UNCHANGED <<handler, inflight, faulted, ctx, obs, sleep>>

\* The loop as it would be if it took no token from limitCh.
FnStartNoToken ==
    /\ ~faulted
    /\ batch.pc = "admitted"
    /\ batch.i < batch.delta
    /\ batch' = [batch EXCEPT !.i = @ + 1,
                              !.fn[batch.i + 1] = "running",
                              !.calls[batch.i + 1] = @ + 1]
    /\ last' = NoCall
    /\ UNCHANGED <<handler, inflight, faulted, ctx, obs, sleep>>

\* A turn of the loop for i: a token is taken from limitCh if it is used,
\* and fn(i) is invoked in a goroutine of its own (each turn has its own i).
\* For TryFunc and TryFuncAsync: fn() is invoked.
FnStart ==
    /\ ~faulted
    /\ batch.pc = "admitted"
    /\ batch.i < batch.delta
    /\ Pool(batch) => Tokens(batch) > 0
    /\ batch' = [batch EXCEPT !.i = @ + 1,
                              !.fn[batch.i + 1] = "running",
                              !.calls[batch.i + 1] = @ + 1]
    /\ last' = NoCall
    /\ UNCHANGED <<handler, inflight, faulted, ctx, obs, sleep>>

\* fn returns for the index j - 1.
FnReturn(j) ==
    /\ ~faulted
    /\ batch.pc = "admitted"
    /\ j \in DOMAIN batch.fn
    /\ batch.fn[j] = "running"
    /\ batch' = [batch EXCEPT !.fn[j] = "returned"]
    /\ last' = NoCall
    /\ UNCHANGED <<handler, inflight, faulted, ctx, obs, sleep>>

\* jh.Done() as it would be if a goroutine called it before its fn.
FnDoneEarly ==
    /\ batch.pc = "admitted"
    /\ batch.i > DoneBegun
    /\ Done

\* jh.Done(), called by a goroutine whose fn has returned.
FnDone ==
    /\ batch.pc = "admitted"
    /\ Returned(batch) > DoneBegun
    /\ Done

\* A goroutine of TryNFuncAsync whose Done has returned puts its token back.
TokenReturn ==
    /\ ~faulted
    /\ batch.pc = "admitted"
    /\ Pool(batch)
    /\ batch.tokret < DoneReturned
    /\ batch' = [batch EXCEPT !.tokret = @ + 1]
    /\ last' = NoCall
    /\ UNCHANGED <<handler, inflight, faulted, ctx, obs, sleep>>

\* TryFuncAsync as it would be with ch <- true before fn() and jh.Done().
FuncDeliverEarly ==
    /\ ~faulted
    /\ batch.pc = "admitted"
    /\ batch.api # "TryNFuncAsync"
    /\ batch.res = "none"
    /\ batch' = [batch EXCEPT !.res = "true"]
    /\ last' = NoCall
    /\ UNCHANGED <<handler, inflight, faulted, ctx, obs, sleep>>

\* TryFunc: return true; TryFuncAsync: ch <- true; both after jh.Done().
FuncDeliver ==
    /\ ~faulted
    /\ batch.pc = "admitted"
    /\ batch.api # "TryNFuncAsync"
    /\ batch.res = "none"
    /\ DoneReturned = 1
    /\ batch' = [batch EXCEPT !.res = "true"]
    /\ last' = NoCall
    /\ UNCHANGED <<handler, inflight, faulted, ctx, obs, sleep>>

\* One call of TryFunc, TryFuncAsync or TryNFuncAsync, with Stop and WaitAll
\* called at will. What a TryN returned is read by its caller before any
\* other goroutine takes a step (the read is local to the caller).
NextFunc ==
    \/ \E api \in Apis, d \in Deltas, l \in Limits : FuncCall(api, d, l)
    \/ FuncTry
    \/ FuncGot
    \/ FuncSend
    \/ FnStart
    \/ \E j \in 1..MaxUnits : FnReturn(j)
    \/ FnDone
    \/ TokenReturn
    \/ FuncDeliver
    \/ ~Pending /\ Stop
    \/ ~Pending /\ WaitAll
    \/ ~Pending /\ WaitSem
    \/ ~Pending /\ TryLoad
    \/ ~Pending /\ TryCas
    \/ ~Pending /\ TryWg
    \/ ~Pending /\ DoneChk
    \/ ~Pending /\ DoneWg
    \/ ~Pending /\ StopDec
    \/ ~Pending /\ StopClose
    \/ ~Pending /\ StopWg
    \/ ~Pending /\ AddChk
    \/ ~Pending /\ AddRel

SpecFunc == Init /\ [][NextFunc]_vars

\* The scheduler runs every goroutine that can run: the caller reads what its
\* TryN returned, the loop takes its next turn once a token is there, each
\* goroutine calls Done after its fn and puts its token back, and a call in
\* progress takes its next step. Every invocation of fn returns. Nobody has
\* to call Stop or WaitAll.
FairnessFunc ==
    /\ WF_vars(FuncTry) /\ WF_vars(FuncGot) /\ WF_vars(FuncSend)
    /\ WF_vars(FnStart)
    /\ \A j \in 1..MaxUnits : WF_vars(FnReturn(j))
    /\ WF_vars(FnDone) /\ WF_vars(TokenReturn) /\ WF_vars(FuncDeliver)
    /\ WF_vars(~Pending /\ TryLoad) /\ WF_vars(~Pending /\ TryCas)
    /\ WF_vars(~Pending /\ TryWg)
    /\ WF_vars(~Pending /\ DoneChk) /\ WF_vars(~Pending /\ DoneWg)
    /\ WF_vars(~Pending /\ StopDec) /\ WF_vars(~Pending /\ StopClose)
    /\ WF_vars(~Pending /\ StopWg)
    /\ WF_vars(~Pending /\ AddChk) /\ WF_vars(~Pending /\ AddRel)
    /\ WF_vars(~Pending /\ WaitSem)

FairSpecFunc == SpecFunc /\ FairnessFunc

\* -------------------------------------------------------------- TrySleep
\* One call of TrySleep(d) is followed: sleep.pc is "armed" once time.After(d)
\* has started the timer, "parked" while the goroutine is blocked in the
\* select, "ret" when the call has returned sleep.ret; fired tells that the
\* timer has elapsed, and early that it did so before stopChan was closed.
\* The duration d is left open: the timer elapses in any later step.

\* TrySleep: time.After(d) is evaluated on entering the select.
SleepCall ==
    /\ ~faulted
    /\ sleep.pc = "none"
    /\ sleep' = [sleep EXCEPT !.pc = "armed"]
    /\ last' = NoCall
    /\ UNCHANGED <<handler, inflight, faulted, ctx, obs, batch>>

\* The timer of time.After(d) elapses: its channel can be received from.
TimerFire ==
    /\ ~faulted
    /\ sleep.pc \in {"armed", "parked"}
    /\ ~sleep.fired
    /\ sleep' = [sleep EXCEPT !.fired = TRUE, !.early = (stopChan # "closed")]
    /\ last' = NoCall
    /\ UNCHANGED <<handler, inflight, faulted, ctx, obs, batch>>

\* TrySleep: the select looks at its two cases. With both ready it takes
\* either; with one ready, that one; with none the goroutine blocks (a
\* receive from the nil stopChan of the zero-value handler is never ready).
SleepPoll ==
    /\ ~faulted
    /\ sleep.pc = "armed"
    /\ IF stopChan # "closed" /\ ~sleep.fired
         THEN sleep' = [sleep EXCEPT !.pc = "parked"]
         ELSE \E r \in {"true", "false"} :
                  /\ r = "true" => sleep.fired
                  /\ r = "false" => stopChan = "closed"
                  /\ sleep' = [sleep EXCEPT !.pc = "ret", !.ret = r]
    /\ last' = NoCall
    /\ UNCHANGED <<handler, inflight, faulted, ctx, obs, batch>>

\* TrySleep: the blocked goroutine goes on with the case that woke it, the
\* first of the two to get ready.
SleepWake ==
    /\ ~faulted
    /\ sleep.pc = "parked"
    /\ stopChan = "closed" \/ sleep.fired
    /\ sleep' = [sleep EXCEPT
             !.pc = "ret",
             !.ret = IF sleep.fired /\ sleep.early THEN "true" ELSE "false"]
    /\ last' = NoCall
    /\ UNCHANGED <<handler, inflight, faulted, ctx, obs, batch>>

NextSleep == Call \/ Step \/ SleepCall \/ TimerFire \/ SleepPoll \/ SleepWake

SpecSleep == Init /\ [][NextSleep]_vars

\* ---------------------------------------------------------------- claims
\* The units a call in progress holds: a TryN whose CompareAndSwap has
\* succeeded has admitted delta units, a Done is completing one.
Units(c) ==
    IF c.op = "TryN" /\ c.pc \in {"try_wg", "add_chk", "add_rel"} THEN c.delta
    ELSE IF c.op = "Done" THEN 1
    ELSE 0

RECURSIVE UnitsIn(_)
UnitsIn(S) ==
    IF S = {} THEN 0
    ELSE LET c == CHOOSE x \in S : TRUE
         IN  Units(c) * CopiesIn(c, inflight) + UnitsIn(S \ {c})

\* The admitted units whose Done has not returned.
Outstanding == owed + UnitsIn(Active)

PastChecks == {"done_wg", "add_chk", "add_rel"}

\* C1: a WaitAll call returns only in a state where the handler is stopped
\* and every admitted unit has had its Done performed.
C1_WaitAllReturnsQuiescent ==
    (last.op = "WaitAll" /\ last.ret = "void") => (~running /\ Outstanding = 0)

\* C2: with Stop called and every admitted unit completed by its Done, a
\* goroutine blocked in WaitAll eventually returns from it.
C2_WaitAllEventuallyReturns == (waiting > 0) ~> (waiting = 0 /\ ~faulted)

\* C3: a TryN call that begins after a Stop call has returned true returns
\* false, whatever its delta and whatever is outstanding: no such call gets
\* past the check of running.
C3_NoAdmissionAfterStop ==
    /\ \A c \in Active : c.op = "TryN" => ~c.after
    /\ (last.op = "TryN" /\ last.after) => last.ret = "false"

C3_Witness ==
    /\ last.op = "TryN" /\ last.after /\ last.ret = "false" /\ last.delta = 0
    /\ kind = "New" /\ owed > 0

\* C4: TryN never increases count in a state where running is already false.
C4_NoIncreaseWhenStopped == [][n' > n => running]_vars

\* C5: once a WaitAll call has returned, neither the tracker nor count is
\* positive in any later state.
C5_QuiescencePermanent == waitRet => (wgv <= 0 /\ n <= 0)

\* C6: a zero-value handler is stopped and stays as it is: no call gets in
\* progress, TryN returns false, Stopped true, Stop false, WaitAll returns at
\* once, and no field changes.
C6_ZeroHandlerStopped ==
    kind = "zero" =>
        /\ n = 0 /\ ~running /\ stopChan = "nil"
        /\ wgv = 0 /\ wgw = 0 /\ sema = 0
        /\ inflight = EmptyBag /\ waiting = 0 /\ ~faulted
        /\ last.op = "TryN" => last.ret = "false"
        /\ last.op = "Stopped" => last.ret = "true"
        /\ last.op = "Stop" => last.ret = "false"
        /\ last.op = "WaitAll" => last.ret = "void"

C6_Witness == kind = "zero" /\ last.op = "Stop" /\ last.ret = "false"

\* C7: of the Stop calls on a handler built by New exactly one returns true:
\* once the handler is stopped and no Stop is in progress, one Stop has
\* returned true and stopChan is closed; no Stop call panics.
C7_ExactlyOneStopReturnsTrue ==
    /\ last.op = "Stop" => last.ret \in {"true", "false"}
    /\ (kind = "New" /\ ~running /\ ~faulted /\ \A c \in Active : c.op # "Stop")
          => (stopTrue = 1 /\ closes = 1 /\ stopChan = "closed")

\* C8: Done panics with "negative job count" when its decrement makes count
\* negative, and with "zero job count while running, should be at least 1"
\* when its decrement makes count 0 and it then finds running true: no count
\* is negative without a panic, a Done call past its checks holds a result
\* n > 0, or n = 0 with running false, and each message has its cause.
C8_DoneFaults ==
    /\ n < 0 => faulted
    /\ \A c \in Active : (c.op = "Done" /\ c.pc \in PastChecks) =>
          (c.val > 0 \/ (c.val = 0 /\ ~running))
    /\ \A c \in Active : (c.op = "Done" /\ c.pc = "done_chk") => c.val = 0
    /\ (last.op = "Done" /\ last.ret = NegativeCount) => n < 0
    /\ (last.op = "Done" /\ last.ret = ZeroWhileRunning) => running

C8_Witness ==
    /\ last.op = "Done" /\ last.ret = ZeroWhileRunning /\ last.unm
    /\ kind = "New" /\ n = 0 /\ running

\* C9: a Done call begun with no admitted unit owed panics in that call, and
\* never gets to its wg.Add(-1).
C9_UnmatchedDoneFaults ==
    /\ \A c \in Active : (c.op = "Done" /\ c.unm) => c.pc \notin PastChecks
    /\ (last.op = "Done" /\ last.unm) => last.ret \in {NegativeCount, ZeroWhileRunning}

\* C10: under correct usage a handler built by New has count >= 0, and
\* count >= 1 while running.
C10_CountInvariant ==
    kind = "New" => (n >= 0 /\ (running => n >= 1))

C10_Witness ==
    kind = "New" /\ running /\ n = 1 /\ last.op = "Done" /\ last.ret = "void"

\* No call of TryN, Done or Stop is in progress, and none has panicked.
Quiet == inflight = EmptyBag /\ ~faulted

\* C11: in every state in which no TryN, Done or Stop call is in progress the
\* counter of the WaitGroup equals n; both are 1 after New and 0 in the
\* zero-value handler.
C11_TrackerEqualsCount == Quiet => wgv = n

\* C12: once every call has returned, n is 1 while running (0 once stopped)
\* plus the deltas of the TryN calls that returned true minus the number of
\* Done calls (owed is that difference once every Done has returned).
C12_NothingLostNorDoubled ==
    Quiet => n = (IF running THEN 1 ELSE 0) + owed

C12_Witness ==
    /\ Quiet /\ kind = "New" /\ running /\ n = 2 /\ owed = 1
    /\ reserved = 2 /\ last.op = "Done" /\ last.ret = "void"

\* C13: a TryN(0) call made while running is true (one that got past the
\* check of running, and so got in progress) returns true, and n and the
\* counter of the WaitGroup are what they were.
C13_TryZeroSucceeds ==
    [][(last'.op = "TryN" /\ last'.delta = 0 /\ inflight' # inflight)
          => (last'.ret = "true" /\ n' = n /\ wgv' = wgv)]_vars

\* C14: a TryN call that returns false changes nothing, and returns from
\* the check of delta and running or from the check of prev, never after its
\* swap; n rises only by the delta of a TryN whose swap succeeds, and the
\* counter of the WaitGroup only by the delta of a TryN past its swap.
C14_FailedAdmissionChangesNothing ==
    [][/\ (last'.op = "TryN" /\ last'.ret = "false") =>
            /\ UNCHANGED <<n, wgv, wgw, sema, running, stopChan>>
            /\ \/ inflight' = inflight
               \/ \E c \in Active :
                      /\ c.op = "TryN" /\ c.pc = "try_load"
                      /\ inflight' = inflight (-) SetToBag({c})
       /\ n' > n =>
            \E c \in Active :
                /\ c.op = "TryN" /\ c.pc = "try_cas" /\ n' = n + c.delta
                /\ inflight' = (inflight (-) SetToBag({c}))
                                  (+) SetToBag({[c EXCEPT !.pc = "try_wg", !.val = 0]})
       /\ wgv' > wgv =>
            \E c \in Active :
                /\ c.op = "TryN" /\ c.pc = "try_wg" /\ wgv' = wgv + c.delta
                /\ last'.ret # "false"
      ]_vars

C14_Witness ==
    /\ last.op = "TryN" /\ last.ret = "false" /\ last.delta = MaxUnits
    /\ reserved = MaxUnits /\ kind = "New" /\ n = 0 /\ wgv = 0

\* C15: once ctx is cancelled the handler gets stopped, and when it is the
\* observer that stops it, a goroutine blocked in WaitAll returns from it
\* (each admitted unit getting its Done); no step of a Stop changes ctx.
C15_CancelStops ==
    /\ (ctx = "cancelled") ~> ~running
    /\ (obs = "stop" /\ waiting > 0) ~> (waiting = 0 /\ ~faulted)
    /\ [][(running' # running \/ stopChan' # stopChan \/ n' # n) => ctx' = ctx]_vars

\* C16: the observer ends once ctx is cancelled or the stop signal is given
\* (a panic ends every goroutine), and an observer woken by the stop signal
\* changes nothing of the handler: it does not call Stop.
C16_ObserverEnds ==
    /\ (obs = "select" /\ (ctx = "cancelled" \/ stopChan = "closed"))
          ~> (obs = "exited" \/ faulted)
    /\ [][(obs = "select" /\ obs' = "exited" /\ ctx = "live")
            => UNCHANGED <<handler, inflight, faulted>>]_vars
    /\ [](closes <= 1)

C16_Witness ==
    /\ obs = "exited" /\ ctx = "live" /\ stopChan = "closed"
    /\ stopTrue = 1 /\ closes = 1

\* C17: after a TryNFuncAsync(delta, limit, fn) with 0 < limit < delta, at
\* most limit invocations of fn are in progress (and limitCh never holds a
\* negative number of tokens); with any limit, at most delta are.
C17_AtMostLimitRunning ==
    /\ batch.pc # "admitted" => Running(batch) = 0
    /\ batch.pc = "admitted" => Running(batch) <= batch.delta
    /\ (batch.pc = "admitted" /\ 0 < batch.limit /\ batch.limit < batch.delta) =>
          /\ Pool(batch)
          /\ Running(batch) <= batch.limit
          /\ Tokens(batch) >= 0

C17_Witness ==
    /\ batch.api = "TryNFuncAsync" /\ batch.pc = "admitted"
    /\ 0 < batch.limit /\ batch.limit < batch.delta
    /\ Running(batch) = batch.limit /\ batch.i = batch.delta
    /\ Returned(batch) > 0

\* C18: fn is invoked at most once for each index, and exactly once when
\* the call is over; a goroutine calls Done only after its fn has returned,
\* once; TryFunc returns true and TryFuncAsync sends true only after Done;
\* when every Done has returned, no unit is owed and n is back at 1 (0 once
\* stopped), with the counter of the WaitGroup.
C18_EachIndexOnceThenDone ==
    /\ \A j \in DOMAIN batch.calls : batch.calls[j] <= 1
    /\ batch.pc = "admitted" =>
          /\ DOMAIN batch.calls = 1..batch.delta
          /\ 0 <= DoneBegun /\ DoneBegun <= Returned(batch)
    /\ (batch.api # "TryNFuncAsync" /\ batch.res = "true") => DoneReturned = 1
    /\ (batch.pc = "admitted" /\ Quiet /\ DoneReturned = batch.delta) =>
          /\ \A j \in 1..batch.delta : batch.calls[j] = 1 /\ batch.fn[j] = "returned"
          /\ owed = 0
          /\ n = (IF running THEN 1 ELSE 0) /\ wgv = n

C18_Witness ==
    /\ batch.api = "TryNFuncAsync" /\ batch.pc = "admitted"
    /\ batch.delta = MaxUnits /\ Quiet /\ DoneReturned = batch.delta
    /\ running /\ n = 1

\* C19: when the admission is refused the call returns or sends false, fn
\* is invoked for no index and no Done is called, and n and the counter of
\* the WaitGroup are untouched; when it is admitted, n holds all delta units.
C19_RefusedRunsNothing ==
    /\ batch.res = "false" <=> batch.pc = "refused"
    /\ batch.res = "false" =>
          /\ batch.i = 0 /\ Running(batch) = 0 /\ Returned(batch) = 0
          /\ \A j \in DOMAIN batch.calls : batch.calls[j] = 0
          /\ owed = 0 /\ DonesInFlight = 0
          /\ Quiet => (n = (IF running THEN 1 ELSE 0) /\ wgv = n)
    /\ (batch.pc = "admitted" /\ batch.i = 0 /\ Quiet) =>
          n = (IF running THEN 1 ELSE 0) + batch.delta

C19_Witness ==
    /\ batch.pc = "refused" /\ batch.res = "false"
    /\ batch.api = "TryNFuncAsync" /\ batch.delta = MaxUnits
    /\ kind = "New" /\ stopTrue = 1 /\ Quiet /\ n = 0

\* C20: TrySleep returns false only with the stop signal given, true only
\* with the timer elapsed, and false whenever the stop signal was given
\* before the timer elapsed; no step of it changes the handler.
C20_SleepOutcome ==
    /\ [](sleep.ret = "false" => stopChan = "closed")
    /\ [](sleep.ret = "true" => sleep.fired)
    /\ []((sleep.pc = "ret" /\ stopChan = "closed" /\ ~(sleep.fired /\ sleep.early))
            => sleep.ret = "false")
    /\ [][sleep' # sleep => UNCHANGED <<handler, inflight, faulted>>]_vars

\* TryNFuncAsync has admitted its delta units.
Admitted == batch.api = "TryNFuncAsync" /\ batch.pc = "admitted"

\* Every index has had its one invocation of fn, which has returned, and
\* the Done of each has returned.
AllCompleted ==
    /\ \A j \in DOMAIN batch.fn : batch.fn[j] = "returned" /\ batch.calls[j] = 1
    /\ DoneReturned = batch.delta

\* C21: once TryNFuncAsync has admitted its units, every index gets its
\* invocation of fn and its Done, whenever Stop is called; a goroutine that
\* is blocked in WaitAll with the handler stopped gets out of it, and a
\* WaitAll call returns only with each of the delta units past its Done.
C21_BatchCompletes ==
    /\ Admitted ~> AllCompleted
    /\ (Admitted /\ waiting > 0 /\ stopChan = "closed") ~> (waiting = 0 /\ ~faulted)
    /\ [](/\ Admitted /\ last.op = "WaitAll" /\ last.ret = "void"
           => /\ ~running /\ owed = 0
              /\ \A j \in DOMAIN batch.fn : batch.fn[j] = "returned"
              /\ \A c \in Active : c.op = "Done" => c.pc \in {"add_chk", "add_rel"})

\* Stopped() would return true, and no Stop call is in progress.
StoppedAtRest == ~running /\ \A c \in Active : c.op # "Stop"

\* C22: whenever Stopped() is true and no Stop call is in progress, the
\* channel that OnStop() returns is closed, for the zero-value handler too;
\* a TrySleep that returns then, its timer not elapsed, returns false, and
\* none stays blocked in its select.
C22_StopIsLevelTriggered ==
    /\ [](StoppedAtRest => stopChan = "closed")
    /\ []((StoppedAtRest /\ ~sleep.fired) => sleep.pc # "parked" \/ ENABLED SleepWake \/ faulted)
    /\ [][(StoppedAtRest /\ ~sleep.fired /\ sleep.pc # "ret" /\ sleep'.pc = "ret")
            => sleep'.ret = "false"]_vars

\* C23: with Done called once for each admitted unit and never otherwise, no
\* call of TryN, Done or Stop panics with "negative job count", and no Done
\* with "zero job count while running, should be at least 1", however the
\* calls interleave and however many Stop calls are made.
C23_NoCountFault ==
    /\ last.ret \notin {NegativeCount, ZeroWhileRunning}
    /\ n >= 0
    /\ \A c \in Active : (c.op = "Done" /\ c.pc = "done_chk") => ~running

C23_Witness ==
    /\ kind = "New" /\ ~faulted
    /\ last.op = "Done" /\ last.ret = "void" /\ n = 0 /\ ~running
    /\ \E c \in Active : c.op = "Stop"

\* The TryN calls that are in the loop of TryN.
InLoop == {c \in Active : c.op = "TryN" /\ c.pc \in {"try_load", "try_cas"}}

\* The call c, at its compare-and-swap, goes back to the load in this step.
Retries(c) ==
    LET back == [c EXCEPT !.pc = "try_load", !.val = 0]
    IN  /\ c.op = "TryN" /\ c.pc = "try_cas"
        /\ CopiesIn(c, inflight') = CopiesIn(c, inflight) - 1
        /\ CopiesIn(back, inflight') = CopiesIn(back, inflight) + 1

\* C24: a TryN call goes back to its load only from a compare-and-swap that
\* found n other than the prev it had loaded, and that step changes nothing
\* of the handler; with the other calls updating n finitely often, every
\* TryN call leaves the loop: from some state on none is in it.
C24_LoopEnds ==
    /\ [][\A c \in Active : Retries(c) => (n # c.val /\ UNCHANGED handler)]_vars
    /\ <>[](faulted \/ InLoop = {})

C24_Witness ==
    /\ kind = "New" /\ ~faulted
    /\ \E c \in Active : c.op = "TryN" /\ c.pc = "try_cas" /\ c.val # n /\ n > 0

\* A Stop call is in progress at the step p.
StopAt(p) == \E c \in Active : c.op = "Stop" /\ c.pc = p

\* C25: on a handler built by New a Stop call swaps running to false, then
\* decrements n, then closes stopChan, then does wg.Add(-1), each in a step
\* of its own that leaves the other three alone; so stopChan is closed only
\* with running false, and a WaitAll call returns only with stopChan closed.
C25_StopOrder ==
    /\ [](kind = "New" =>
            /\ running => (stopChan = "open" /\ \A c \in Active : c.op # "Stop")
            /\ StopAt("stop_dec") => (~running /\ stopChan = "open" /\ wgv >= 1)
            /\ StopAt("stop_close") => (~running /\ stopChan = "open" /\ wgv >= 1)
            /\ StopAt("stop_wg") => (~running /\ stopChan = "closed" /\ wgv >= 1)
            /\ stopChan = "closed" => ~running
            /\ (last.op = "WaitAll" /\ last.ret = "void") => stopChan = "closed")
    /\ [][kind = "New" =>
            /\ running' # running
                 => (StopAt("stop_dec")' /\ UNCHANGED <<n, stopChan, wgv>>)
            /\ (StopAt("stop_dec") /\ ~StopAt("stop_dec")' /\ ~faulted')
                 => (StopAt("stop_close")' /\ n' = n - 1
                     /\ UNCHANGED <<running, stopChan, wgv>>)
            /\ stopChan' # stopChan
                 => (StopAt("stop_close") /\ StopAt("stop_wg")'
                     /\ UNCHANGED <<running, n, wgv>>)
            /\ (StopAt("stop_wg") /\ ~StopAt("stop_wg")')
                 => (wgv' = wgv - 1 /\ UNCHANGED <<running, n, stopChan>>)]_vars

C25_Witness ==
    /\ kind = "New" /\ ~faulted
    /\ last.op = "WaitAll" /\ last.ret = "void" /\ stopChan = "closed"
    /\ StopAt("add_chk") /\ wgw = 1 /\ owed = 0

\* The call followed is one of the two that return a channel.
Async == batch.api \in {"TryFuncAsync", "TryNFuncAsync"}

\* C26: a call of TryFuncAsync or TryNFuncAsync sends one value on ch, never
\* a second (ch has room for one, so the send does not block): true if its
\* TryN returned true, false if not. TryFuncAsync sends true once fn has
\* returned and Done has returned; TryNFuncAsync sends true once admitted,
\* a send that is ready whatever the invocations of fn have done, none
\* started or all returned. Unless the program has panicked, the value is
\* sent.
C26_OneResult ==
    /\ [](Async => /\ batch.res = "true" => batch.pc = "admitted"
                   /\ batch.res = "false" <=> batch.pc = "refused"
                   /\ (batch.api = "TryNFuncAsync" /\ batch.pc = "admitted"
                        /\ batch.res = "none" /\ ~faulted) => ENABLED FuncSend
                   /\ (batch.api = "TryFuncAsync" /\ batch.res = "true")
                         => (batch.fn[1] = "returned" /\ DoneReturned = 1))
    /\ [][Async =>
            /\ batch.res # "none" => batch' = batch \/ batch'.res = batch.res
            /\ (batch.res = "none" /\ batch'.res = "false")
                 => (last.op = "TryN" /\ last.ret = "false" /\ batch.pc = "call")
            /\ (batch.res = "none" /\ batch'.res = "true")
                 => /\ batch.pc = "admitted"
                    /\ [batch' EXCEPT !.res = "none"] = batch
                    /\ UNCHANGED <<handler, inflight, faulted>>
                    /\ batch.api = "TryFuncAsync"
                          => (batch.fn[1] = "returned" /\ DoneReturned = 1)]_vars
    /\ (Async /\ batch.pc = "call") ~> (batch.res # "none" \/ faulted)

C26_Witness ==
    /\ batch.api = "TryFuncAsync" /\ batch.res = "true" /\ ~faulted
    /\ batch.fn[1] = "returned" /\ DoneReturned = 1 /\ stopTrue = 1

====
